---- MODULE Spec2Model ----
(***************************************************************************)
(* A model of pydepgraph's size-annotated dependency tree builder          *)
(* (src/pydepgraph/get_dependencies.py): the recursive annotation walk     *)
(* add_package_sizes with its memo of sizes, the JSON cache file that      *)
(* get_deptree_with_sizes reads and rewrites, and the size formatter       *)
(* kbytes_to_human_readable.                                               *)
(***************************************************************************)
EXTENDS Integers, Sequences, FiniteSets, TLC

VARIABLES
    file,           \* the cache file: [exists, text], text a sequence of JSON tokens
    package_sizes,  \* the dict that is add_package_sizes' default _package_sizes
    call,           \* the arguments of the last call of get_deptree_with_sizes
    outcome,        \* how that call ended: "returned" or the exception it raised
    ret,            \* the tree it returned (<<>> when it raised)
    listed,         \* whether it invoked get_deptree
    raw,            \* the tree get_deptree returned to it (<<>> when not invoked)
    sizeCalls,      \* the invocations of get_package_size it made, in order
    opens,          \* the modes in which it opened the cache file, in order
    fileBefore,     \* the cache file as it was when the call started
    kb_in,          \* the argument of the last call of kbytes_to_human_readable
    kb_out          \* what that call produced

vars == <<file, package_sizes, call, outcome, ret, listed, raw, sizeCalls, opens,
          fileBefore, kb_in, kb_out>>

-----------------------------------------------------------------------------
(* Values *)

\* The package the calls ask for, and another one whose tree an earlier
\* invocation of the tool left in the cache file.
RequestedPackage == "P"
OtherPackage == "Q"

\* The strings get_package_size returns, and the exception it lets through
\* when get_package_location finds no Location line.
Sizes == {"1KB", "2MB"}
LocationNotFound == "ValueError"
SizeOutcomes == Sizes \cup {LocationNotFound}

\* A node of pipdeptree's --json-tree output.
Node(k, n, deps) == [key |-> k, package_name |-> n, dependencies |-> deps]

\* A node after add_package_sizes has set package["size"].
Sized(package, size) ==
    [key |-> package.key, package_name |-> package.package_name,
     dependencies |-> package.dependencies, size |-> size]

HasSize(package) == "size" \in DOMAIN package

\* The trees the dependency lister answers with: nothing at all; two roots,
\* the second of which is also the first one's dependency (one key at two
\* positions and two depths); and two keys that name the same package.
EmptyTree == <<>>
SharedDepTree ==
    <<Node("alpha", "alpha", <<Node("beta", "beta", <<>>)>>),
      Node("beta", "beta", <<>>)>>
AliasTree ==
    <<Node("alpha", "pkg", <<Node("beta", "pkg", <<>>)>>)>>
RawTrees == {EmptyTree, SharedDepTree, AliasTree}

RECURSIVE NodeCount(_)
NodeCount(packages) ==
    IF packages = <<>> THEN 0
    ELSE 1 + NodeCount(Head(packages).dependencies) + NodeCount(Tail(packages))

\* All nodes of a tree, parents before children, in listing order.
RECURSIVE Nodes(_)
Nodes(packages) ==
    IF packages = <<>> THEN <<>>
    ELSE <<Head(packages)>> \o Nodes(Head(packages).dependencies)
                            \o Nodes(Tail(packages))

\* The tree with every "size" entry removed.
RECURSIVE Strip(_)
Strip(packages) ==
    IF packages = <<>> THEN <<>>
    ELSE <<Node(Head(packages).key, Head(packages).package_name,
                Strip(Head(packages).dependencies))>> \o Strip(Tail(packages))

AllSized(packages) ==
    \A i \in 1..Len(Nodes(packages)) : HasSize(Nodes(packages)[i])

-----------------------------------------------------------------------------
(* The cache file: one JSON object, package name -> annotated tree *)

\* A Python dict kept as its items in insertion order.
DictKeys(d) == {d[i].name : i \in 1..Len(d)}

DictGet(d, name) == d[CHOOSE i \in 1..Len(d) : d[i].name = name].tree

\* A variant of DictSet that keeps nothing but the entry it sets.
DictSetAlone(d, name, tree) == <<[name |-> name, tree |-> tree]>>

\* d[name] = tree: an existing key keeps its place, a new one goes last.
DictSet(d, name, tree) ==
    IF name \in DictKeys(d)
    THEN [i \in 1..Len(d) |->
            IF d[i].name = name THEN [name |-> name, tree |-> tree] ELSE d[i]]
    ELSE Append(d, [name |-> name, tree |-> tree])

\* The dict as a mapping, whatever the order of its items.
AsMap(d) == [n \in DictKeys(d) |-> DictGet(d, n)]

\* json.dump: the text of a tree, token by token. A node's entries come in
\* the dict's order, "size" last because add_package_sizes adds it last.
RECURSIVE dump_packages(_)
RECURSIVE dump_items(_)
dump_package(p) ==
    <<"{", "key", p.key, "package_name", p.package_name, "dependencies">>
    \o dump_packages(p.dependencies)
    \o (IF HasSize(p) THEN <<"size", p.size>> ELSE <<>>)
    \o <<"}">>
dump_items(packages) ==
    IF packages = <<>> THEN <<>>
    ELSE dump_package(Head(packages)) \o dump_items(Tail(packages))
dump_packages(packages) == <<"[">> \o dump_items(packages) \o <<"]">>

RECURSIVE dump_entries(_)
dump_entries(d) ==
    IF d = <<>> THEN <<>>
    ELSE <<Head(d).name, ":">> \o dump_packages(Head(d).tree)
         \o dump_entries(Tail(d))
json_dump(d) == <<"{">> \o dump_entries(d) \o <<"}">>

\* json.load: a recursive-descent parse of the tokens. ok is FALSE where
\* json raises JSONDecodeError.
ParseFail == [ok |-> FALSE, val |-> <<>>, rest |-> <<>>]
From(toks, i) == SubSeq(toks, i, Len(toks))

RECURSIVE parse_packages(_)
RECURSIVE parse_items(_, _)
parse_package(toks) ==
    IF \/ Len(toks) < 7
       \/ toks[1] # "{" \/ toks[2] # "key" \/ toks[4] # "package_name"
       \/ toks[6] # "dependencies"
    THEN ParseFail
    ELSE LET d == parse_packages(From(toks, 7))
             node == Node(toks[3], toks[5], d.val)
         IN  IF ~d.ok \/ d.rest = <<>> THEN ParseFail
             ELSE IF Head(d.rest) = "}"
             THEN [ok |-> TRUE, val |-> node, rest |-> Tail(d.rest)]
             ELSE IF Len(d.rest) >= 3 /\ d.rest[1] = "size" /\ d.rest[3] = "}"
             THEN [ok |-> TRUE, val |-> Sized(node, d.rest[2]),
                   rest |-> From(d.rest, 4)]
             ELSE ParseFail
parse_items(toks, acc) ==
    IF toks = <<>> THEN ParseFail
    ELSE IF Head(toks) = "]"
    THEN [ok |-> TRUE, val |-> acc, rest |-> Tail(toks)]
    ELSE LET p == parse_package(toks)
         IN  IF ~p.ok THEN ParseFail
             ELSE parse_items(p.rest, Append(acc, p.val))
parse_packages(toks) ==
    IF toks = <<>> \/ Head(toks) # "[" THEN ParseFail
    ELSE parse_items(Tail(toks), <<>>)

RECURSIVE parse_entries(_, _)
parse_entries(toks, d) ==
    IF toks = <<>> THEN ParseFail
    ELSE IF Head(toks) = "}"
    THEN IF Tail(toks) = <<>>
         THEN [ok |-> TRUE, val |-> d, rest |-> <<>>]
         ELSE ParseFail
    ELSE IF Len(toks) < 3 \/ toks[2] # ":" THEN ParseFail
    ELSE LET t == parse_packages(From(toks, 3))
         IN  IF ~t.ok THEN ParseFail
             ELSE parse_entries(t.rest, DictSet(d, toks[1], t.val))
json_load(text) ==
    IF text = <<>> \/ Head(text) # "{" THEN ParseFail
    ELSE parse_entries(Tail(text), <<>>)

\* with open(cache_file, "r") as file: json.load(file)
NoFile == [exists |-> FALSE, text |-> <<>>]
FileOf(text) == [exists |-> TRUE, text |-> text]
read_cache(f) ==
    IF ~f.exists THEN [exc |-> "FileNotFoundError", val |-> <<>>]
    ELSE LET p == json_load(f.text)
         IN  IF p.ok THEN [exc |-> "", val |-> p.val]
             ELSE [exc |-> "JSONDecodeError", val |-> <<>>]

\* What the cache file holds as a mapping; an absent file holds nothing.
\* Defined for files json can load.
Persisted(f) == AsMap(read_cache(f).val)
Loadable(f) == read_cache(f).exc # "JSONDecodeError"

-----------------------------------------------------------------------------
(* kbytes_to_human_readable *)

\* Sizes run past what a machine integer holds, so a number of kilobytes is
\* kept as its binary digits, least significant first, with no leading zero
\* (0 is the empty sequence).
RECURSIVE Bits(_)
Bits(n) == IF n = 0 THEN <<>> ELSE <<n % 2>> \o Bits(n \div 2)

RECURSIVE Value(_)
Value(b) == IF b = <<>> THEN 0 ELSE Head(b) + 2 * Value(Tail(b))

Pow2(j) == [i \in 1..(j + 1) |-> IF i = j + 1 THEN 1 ELSE 0]
Ones(j) == [i \in 1..j |-> 1]

RECURSIVE Inc(_)
Inc(b) ==
    IF b = <<>> THEN <<1>>
    ELSE IF Head(b) = 0 THEN <<1>> \o Tail(b)
    ELSE <<0>> \o Inc(Tail(b))

ShiftRight(b, k) == IF k >= Len(b) THEN <<>> ELSE SubSeq(b, k + 1, Len(b))
ShiftLeft(b, k) == IF b = <<>> THEN <<>> ELSE [i \in 1..k |-> 0] \o b

\* A Python float is a double: MantissaBits significant bits. 1024.0 is
\* 2^KiloShift.
MantissaBits == 53
KiloShift == 10

\* A float of value m * 2^e, m held as binary digits.
\* float(n) for an int n: exact up to MantissaBits bits, beyond that rounded
\* to the nearest float, ties to the even mantissa.
to_float(b) ==
    IF Len(b) <= MantissaBits THEN [m |-> b, e |-> 0]
    ELSE LET drop   == Len(b) - MantissaBits
             kept   == ShiftRight(b, drop)
             half   == b[drop] = 1
             sticky == \E i \in 1..(drop - 1) : b[i] = 1
             up     == half /\ (sticky \/ kept[1] = 1)
         IN  [m |-> IF up THEN Inc(kept) ELSE kept, e |-> drop]

\* num_kbytes /= 1024.0: dividing by a power of two changes the exponent only.
float_div_1024(x) == [m |-> x.m, e |-> x.e - KiloShift]

\* abs(num_kbytes) < 1024.0
float_lt_1024(x) == x.m = <<>> \/ Len(x.m) + x.e <= KiloShift

\* int(num_kbytes), for a float below 1024: truncation.
float_int(x) ==
    Value(IF x.e >= 0 THEN ShiftLeft(x.m, x.e) ELSE ShiftRight(x.m, 0 - x.e))

\* f"{n}" for a non-negative int: its decimal digits.
DigitChars == <<"0", "1", "2", "3", "4", "5", "6", "7", "8", "9">>
RECURSIVE Decimal(_)
Decimal(n) ==
    IF n < 10 THEN <<DigitChars[n + 1]>>
    ELSE Decimal(n \div 10) \o <<DigitChars[(n % 10) + 1]>>

Units == <<"KB", "MB", "GB", "TB", "PB", "EB", "ZB">>

\* The loop from its second round on, where num_kbytes is a float. After the
\* last unit, f"{num_kbytes:3d} YB" formats a float with 'd' and raises.
RECURSIVE units_loop(_, _)
units_loop(x, u) ==
    IF u > Len(Units) THEN <<"ValueError">>
    ELSE IF float_lt_1024(x) THEN Decimal(float_int(x)) \o <<Units[u]>>
    ELSE units_loop(float_div_1024(x), u + 1)

\* kbytes_to_human_readable(num_kbytes) for a non-negative int. The first
\* round compares and formats the int itself; the first division makes it a
\* float.
kbytes_to_human_readable(b) ==
    IF Len(b) <= KiloShift THEN Decimal(Value(b)) \o <<Units[1]>>
    ELSE units_loop(float_div_1024(to_float(b)), 2)

\* The arguments tried: every small number, and the numbers at and next to
\* each power of two.
MaxSmallKb == 2100
MaxExp == 72
KbInputs ==
    {Bits(n) : n \in 0..MaxSmallKb}
    \cup {Pow2(j) : j \in 0..MaxExp}
    \cup {Ones(j) : j \in 0..MaxExp}
    \cup {Inc(Pow2(j)) : j \in 1..MaxExp}

-----------------------------------------------------------------------------
(* add_package_sizes: the annotation walk *)

\* The dict add_package_sizes gets as its default argument when the module
\* is imported.
EmptySizes == [k \in {} |-> ""]

\* A variant of MemoHit that never finds a key.
MemoNeverHit(memo, key) == FALSE

\* package["key"] in _package_sizes
MemoHit(memo, key) == key \in DOMAIN memo

\* _package_sizes[package["key"]] = package_size
MemoPut(memo, key, size) == [k \in DOMAIN memo \cup {key} |->
                                IF k = key THEN size ELSE memo[k]]

\* One run of the walk over a list of packages. st carries the memo and the
\* log of get_package_size invocations; oracle[i] is what the i-th invocation
\* does (a size, or the exception it raises). The result holds the list as the
\* walk left it (it is changed in place: where the walk raised, the nodes it
\* did not reach have no size), the memo, the log, and whether it raised.
RECURSIVE add_package_sizes(_, _, _)
RECURSIVE loop_body(_, _, _)
loop_body(package, st, oracle) ==
    LET hit    == MemoHit(st.memo, package.key)
        res    == oracle[Len(st.calls) + 1]
        calls2 == IF hit THEN st.calls
                  ELSE Append(st.calls, [key |-> package.key,
                                         package_name |-> package.package_name,
                                         result |-> res])
    IN  IF ~hit /\ res = LocationNotFound
        THEN [out |-> package, memo |-> st.memo, calls |-> calls2,
              raised |-> TRUE]
        ELSE LET memo2 == IF hit THEN st.memo
                          ELSE MemoPut(st.memo, package.key, res)
                 sized == Sized(package, memo2[package.key])
             IN  IF package.dependencies = <<>>
                 THEN [out |-> sized, memo |-> memo2, calls |-> calls2,
                       raised |-> FALSE]
                 ELSE LET r == add_package_sizes(package.dependencies,
                                  [memo |-> memo2, calls |-> calls2], oracle)
                      IN  [out |-> Sized([package EXCEPT !.dependencies = r.out],
                                         sized.size),
                           memo |-> r.memo, calls |-> r.calls,
                           raised |-> r.raised]
add_package_sizes(packages, st, oracle) ==
    IF packages = <<>>
    THEN [out |-> <<>>, memo |-> st.memo, calls |-> st.calls, raised |-> FALSE]
    ELSE LET h == loop_body(Head(packages), st, oracle)
         IN  IF h.raised
             THEN [out |-> <<h.out>> \o Tail(packages), memo |-> h.memo,
                   calls |-> h.calls, raised |-> TRUE]
             ELSE LET t == add_package_sizes(Tail(packages),
                              [memo |-> h.memo, calls |-> h.calls], oracle)
                  IN  [out |-> <<h.out>> \o t.out, memo |-> t.memo,
                       calls |-> t.calls, raised |-> t.raised]

-----------------------------------------------------------------------------
(* get_deptree_with_sizes *)

\* cache_file is None or the path of the cache file.
NoCacheFile == "None"
CacheFiles == {NoCacheFile, "deps_cache.json"}

\* A variant of UsesCache that overlooks no_cache.
UsesCacheAnyway(cache_file, no_cache) == cache_file # NoCacheFile

\* if cache_file and not no_cache
UsesCache(cache_file, no_cache) == cache_file # NoCacheFile /\ ~no_cache

\* A variant of LoadsFromCache that overlooks refresh.
LoadsFromCacheAnyway(refresh) == TRUE

\* if not refresh
LoadsFromCache(refresh) == ~refresh

\* deptree as a local variable: None, or a tree.
None == [some |-> FALSE, val |-> <<>>]
Some(tree) == [some |-> TRUE, val |-> tree]

\* not deptree: None and the empty list are both falsy.
Falsy(deptree) == ~deptree.some \/ deptree.val = <<>>

\* A variant of Propagates under which the walk's exception is swallowed.
Swallowed(walk) == FALSE

\* add_package_sizes(deptree) is called outside any try: what it raises
\* leaves get_deptree_with_sizes at once.
Propagates(walk) == walk.raised

\* The call get_deptree_with_sizes(package_name, cache_file, refresh,
\* no_cache), where get_deptree would answer with listing and the successive
\* invocations of get_package_size would do what oracle says.
get_deptree_with_sizes(package_name, cache_file, refresh, no_cache, listing, oracle) ==
    \E rd \in {read_cache(file)} :
    \E walk \in {add_package_sizes(listing,
                    [memo |-> package_sizes, calls |-> <<>>], oracle)} :
    LET useCache == UsesCache(cache_file, no_cache)
        tryLoad  == useCache /\ LoadsFromCache(refresh)
        \* deptree = json.load(file)[package_name], or None after
        \* FileNotFoundError or KeyError
        cached   == IF tryLoad /\ rd.exc = ""
                       /\ package_name \in DictKeys(rd.val)
                    THEN Some(DictGet(rd.val, package_name))
                    ELSE None
        compute  == ~useCache \/ Falsy(cached)
        deptree  == IF compute THEN walk.out ELSE cached.val
        \* cache_deptree = json.load(file), or {} after FileNotFoundError;
        \* cache_deptree[package_name] = deptree
        cache_deptree == DictSet(rd.val, package_name, deptree)
        opened   == IF tryLoad THEN <<"r">> ELSE <<>>
    IN  \E r \in {
            IF tryLoad /\ rd.exc = "JSONDecodeError"
            THEN [outcome |-> "JSONDecodeError", ret |-> <<>>, ran |-> FALSE,
                  opens |-> opened, file |-> file]
            ELSE IF compute /\ Propagates(walk)
            THEN [outcome |-> LocationNotFound, ret |-> <<>>, ran |-> TRUE,
                  opens |-> opened, file |-> file]
            ELSE IF ~useCache
            THEN [outcome |-> "returned", ret |-> deptree, ran |-> TRUE,
                  opens |-> <<>>, file |-> file]
            ELSE IF rd.exc = "JSONDecodeError"
            THEN [outcome |-> "JSONDecodeError", ret |-> <<>>, ran |-> compute,
                  opens |-> opened \o <<"r">>, file |-> file]
            ELSE [outcome |-> "returned", ret |-> deptree, ran |-> compute,
                  opens |-> opened \o <<"r", "w">>,
                  file |-> FileOf(json_dump(cache_deptree))] } :
        /\ call' = [package_name |-> package_name, cache_file |-> cache_file,
                    refresh |-> refresh, no_cache |-> no_cache]
        /\ fileBefore' = file
        /\ outcome' = r.outcome
        /\ ret' = r.ret
        /\ opens' = r.opens
        /\ file' = r.file
        /\ listed' = r.ran
        /\ raw' = IF r.ran THEN listing ELSE <<>>
        /\ sizeCalls' = IF r.ran THEN walk.calls ELSE <<>>
        /\ package_sizes' = IF r.ran THEN walk.memo ELSE package_sizes
        /\ UNCHANGED <<kb_in, kb_out>>

\* A cache file cut short in the middle of an entry: json cannot load it.
TruncatedText == <<"{", OtherPackage, ":", "[", "{", "key", "alpha">>

\* The tree an earlier invocation of the tool stored for the other package.
OtherTree == <<Sized(Node("alpha", "alpha", <<>>), "1KB")>>

NoCall == [package_name |-> "", cache_file |-> NoCacheFile,
           refresh |-> FALSE, no_cache |-> FALSE]

Init ==
    /\ file \in {NoFile, FileOf(TruncatedText),
                 FileOf(json_dump(<<[name |-> OtherPackage, tree |-> OtherTree]>>))}
    /\ package_sizes = EmptySizes
    /\ call = NoCall
    /\ outcome = "none"
    /\ ret = <<>>
    /\ listed = FALSE
    /\ raw = <<>>
    /\ sizeCalls = <<>>
    /\ opens = <<>>
    /\ fileBefore = file
    /\ kb_in = <<>>
    /\ kb_out = <<>>

\* A new process imports the module: the def statement builds the default
\* _package_sizes afresh. The cache file stays as the last process left it.
import_module ==
    /\ package_sizes' = EmptySizes
    /\ call' = NoCall
    /\ outcome' = "none"
    /\ ret' = <<>>
    /\ listed' = FALSE
    /\ raw' = <<>>
    /\ sizeCalls' = <<>>
    /\ opens' = <<>>
    /\ fileBefore' = file
    /\ UNCHANGED <<file, kb_in, kb_out>>

call_get_deptree_with_sizes ==
    \E cache_file \in CacheFiles, refresh \in BOOLEAN, no_cache \in BOOLEAN,
       listing \in RawTrees :
        \E oracle \in [1..NodeCount(listing) -> SizeOutcomes] :
            get_deptree_with_sizes(RequestedPackage, cache_file, refresh,
                                   no_cache, listing, oracle)

Next == call_get_deptree_with_sizes \/ import_module

Spec == Init /\ [][Next]_vars

\* The formatter on its own: calls of kbytes_to_human_readable.
InitKb ==
    /\ file = NoFile
    /\ package_sizes = EmptySizes
    /\ call = NoCall
    /\ outcome = "none"
    /\ ret = <<>>
    /\ listed = FALSE
    /\ raw = <<>>
    /\ sizeCalls = <<>>
    /\ opens = <<>>
    /\ fileBefore = file
    /\ kb_in = <<>>
    /\ kb_out = <<>>

call_kbytes_to_human_readable ==
    \E b \in KbInputs :
        /\ kb_in' = b
        /\ kb_out' = kbytes_to_human_readable(b)
        /\ UNCHANGED <<file, package_sizes, call, outcome, ret, listed, raw,
                       sizeCalls, opens, fileBefore>>

NextKb == call_kbytes_to_human_readable

SpecKb == InitKb /\ [][NextKb]_vars

-----------------------------------------------------------------------------
(* What the last call was, read off the recorded arguments *)

Called == outcome # "none"
Returned == outcome = "returned"
WithCacheFile == call.cache_file # NoCacheFile
CacheCall == Called /\ WithCacheFile /\ ~call.no_cache
EntryBefore(name) == name \in DOMAIN Persisted(fileBefore)
LookupFailed == \E i \in 1..Len(sizeCalls) : sizeCalls[i].result = LocationNotFound

\* ret is the listed tree with a size on every node.
FreshlyAnnotated == listed /\ Strip(ret) = raw /\ AllSized(ret)

\* Positions of the returned tree.
RetNodes == Nodes(ret)
RetPos == 1..Len(RetNodes)

-----------------------------------------------------------------------------
(* Claims *)

\* C1: a call with a cache file, refresh=False and no_cache=False, made when
\* the cache file holds an entry for the package (whatever tree it is, an
\* empty one included), returns that entry and invokes neither get_deptree
\* nor get_package_size.
C1_CachedEntryReturned ==
    (CacheCall /\ ~call.refresh /\ Loadable(fileBefore)
        /\ EntryBefore(call.package_name))
    => /\ Returned
       /\ ret = Persisted(fileBefore)[call.package_name]
       /\ ~listed
       /\ sizeCalls = <<>>

\* C2: a call with a cache file and no_cache=False whose cache file is
\* absent, cannot be parsed, or lacks the package's key does not fail because
\* of the cache: it computes a fresh annotated tree and returns it (unless the
\* size lookup fails).
C2_CacheFailureAbsorbed ==
    (CacheCall /\ (\/ ~fileBefore.exists
                   \/ ~Loadable(fileBefore)
                   \/ ~EntryBefore(call.package_name)))
    => /\ outcome \in {"returned", LocationNotFound}
       /\ listed
       /\ Returned => FreshlyAnnotated

\* C3: a call with a cache file, refresh=True and no_cache=False invokes
\* get_deptree whether or not the cache holds an entry for the package, and
\* when it returns, the tree it returns is the listed tree annotated, and the
\* cache file's entry for the package is that tree.
C3_RefreshOverwrites ==
    (CacheCall /\ call.refresh)
    => /\ listed
       /\ Returned =>
            /\ FreshlyAnnotated
            /\ Loadable(file)
            /\ call.package_name \in DOMAIN Persisted(file)
            /\ Persisted(file)[call.package_name] = ret

\* A refreshing call that returned a tree other than the non-empty one the
\* cache held for the package.
C3_Witness ==
    /\ CacheCall /\ call.refresh /\ Returned
    /\ EntryBefore(call.package_name)
    /\ Persisted(fileBefore)[call.package_name] # <<>>
    /\ Persisted(fileBefore)[call.package_name] # ret
    /\ ret # <<>>

C5_OneLookupPerKey ==
    \A i, j \in 1..Len(sizeCalls) :
        sizeCalls[i].key = sizeCalls[j].key => i = j

\* A completed run over a tree in which a key that was looked up sits at two
\* positions.
C5_Witness ==
    /\ listed /\ ~LookupFailed
    /\ \E i, j \in 1..Len(Nodes(raw)) :
        /\ i # j
        /\ Nodes(raw)[i].key = Nodes(raw)[j].key
        /\ \E c \in 1..Len(sizeCalls) : sizeCalls[c].key = Nodes(raw)[i].key

\* C6: when the size lookup fails during a call, the call raises, returns no
\* tree, and leaves the cache file as it was.
C6_LookupFailureLeavesCache ==
    LookupFailed
    => /\ outcome = LocationNotFound
       /\ ret = <<>>
       /\ file = fileBefore

\* A cache-using call over an existing cache file whose walk had sized a node
\* before a later lookup failed.
C6_Witness ==
    /\ LookupFailed /\ CacheCall
    /\ fileBefore.exists /\ Loadable(fileBefore)
    /\ Len(sizeCalls) >= 2

\* C7: after a cache-using call that returned, the cache file holds the
\* mapping it held before (none, when there was no file) with the package's
\* entry set to the returned tree and every other entry unchanged.
C7_StoreMergesEntry ==
    (CacheCall /\ Returned)
    => /\ Loadable(file)
       /\ Persisted(file) =
            [n \in DOMAIN Persisted(fileBefore) \cup {call.package_name} |->
                IF n = call.package_name THEN ret
                ELSE Persisted(fileBefore)[n]]

\* A call that added the package's entry to a cache file holding only the
\* other package's.
C7_Witness ==
    /\ CacheCall /\ Returned
    /\ EntryBefore(OtherPackage)
    /\ ~EntryBefore(call.package_name)
    /\ ret # <<>>
    /\ DOMAIN Persisted(file) = {OtherPackage, call.package_name}

\* C8, as claimed: after add_package_sizes completes, any two nodes of the
\* tree with the same package_name carry the same size.
C8_SameNameSameSize ==
    (listed /\ Returned)
    => \A i, j \in RetPos :
        RetNodes[i].package_name = RetNodes[j].package_name
        => RetNodes[i].size = RetNodes[j].size

\* C8, amended: after add_package_sizes completes, any two nodes of the tree
\* with the same key carry the same size.
C8_SameKeySameSize ==
    (listed /\ Returned)
    => \A i, j \in RetPos :
        RetNodes[i].key = RetNodes[j].key
        => RetNodes[i].size = RetNodes[j].size

\* An annotated tree with one key at two positions and a node of another size.
C8_Witness ==
    /\ listed /\ Returned
    /\ \E i, j, k \in RetPos :
        /\ i # j
        /\ RetNodes[i].key = RetNodes[j].key
        /\ RetNodes[k].size # RetNodes[i].size

\* C10: every run of add_package_sizes that get_deptree_with_sizes starts
\* begins with an empty memo, so a completed run has looked up every key of
\* its tree, those an earlier run recorded included.
C10_EachRunLooksUpItsKeys ==
    (listed /\ ~LookupFailed)
    => \A i \in 1..Len(Nodes(raw)) :
        \E c \in 1..Len(sizeCalls) : sizeCalls[c].key = Nodes(raw)[i].key


\* What C9 says the formatter produces: the step k is the least with
\* n / 1024^k < 1024, the number floor(n / 1024^k), the unit the k-th one.
KbCalled == kb_out # <<>>
ClaimedStep(b) == IF Len(b) <= KiloShift THEN 0 ELSE (Len(b) - 1) \div KiloShift
ClaimedText(b) ==
    Decimal(Value(ShiftRight(b, KiloShift * ClaimedStep(b))))
    \o <<Units[ClaimedStep(b) + 1]>>

\* C9: for a non-negative number n of kilobytes below 1024^7,
\* kbytes_to_human_readable(n) is floor(n / 1024^k) followed by the k-th of
\* KB, MB, GB, TB, PB, EB, ZB, for the least k with n / 1024^k < 1024.
C9_FloorAndUnit ==
    (KbCalled /\ Len(kb_in) <= KiloShift * Len(Units))
    => kb_out = ClaimedText(kb_in)

\* The same, for the numbers a float holds exactly.
KbExactWithinMantissa ==
    (KbCalled /\ Len(kb_in) <= MantissaBits)
    => kb_out = ClaimedText(kb_in)

\* The results the documentation and the size formatting boundary name.
KbExamples ==
    /\ kbytes_to_human_readable(Bits(0)) = <<"0", "KB">>
    /\ kbytes_to_human_readable(Bits(512)) = <<"5", "1", "2", "KB">>
    /\ kbytes_to_human_readable(Bits(1023)) = <<"1", "0", "2", "3", "KB">>
    /\ kbytes_to_human_readable(Bits(1024)) = <<"1", "MB">>
    /\ kbytes_to_human_readable(Bits(2048)) = <<"2", "MB">>
    /\ kbytes_to_human_readable(Bits(1048576)) = <<"1", "GB">>

====
